---------------------------- MODULE Spec2Model ----------------------------
(***************************************************************************)
(* The LC-3 virtual machine of src/vm.c (the complete program, lines       *)
(* 465-1007): registers, memory with the keyboard registers, the opcode    *)
(* handlers, the trap routines and the dispatch loop of main.              *)
(*                                                                         *)
(* A machine state is a record                                             *)
(*   [regs, mem, input, out, state, exit, tio, acc, stored]                *)
(* that the handlers take and return, as the C handlers read and write the *)
(* globals.  mem holds the non-zero cells of memory[] (every other cell of *)
(* the zero-initialised array is 0).  acc and stored record what the       *)
(* machine did: acc the indexes of memory[] the current turn of the loop   *)
(* has used, stored the value _mem_write last put at each address.         *)
(***************************************************************************)
EXTENDS Integers, Sequences, FiniteSets

VARIABLES
    memory,      \* uint16_t memory[UINT16_MAX]: its non-zero cells
    registers,   \* uint16_t registers[COUNT]
    input,       \* bytes waiting on stdin
    stdinEof,    \* stdin is at end-of-file once input is used up
    output,      \* bytes written to stdout
    state,       \* "Running", "Halted", "Aborted"; with signals also
                 \* "Installed", "Saved" (start-up) and "Interrupted"
    exitCode,    \* -1 while running, then the process's exit status
    tio,         \* terminal mode: "raw", "original" or "zero"
    original_tio, \* struct termios original_tio: "zero" until saved
    steps,       \* instructions executed so far
    last,        \* the instruction executed last and the state it started in
    accesses,    \* uses of memory[] by the instruction executed last, in order
    stored,      \* per address, the value _mem_write last stored there
    argv,        \* the image files named on the command line, argv[1..]
    w,           \* sign_extend harness: the instruction word
    bit_count,   \* sign_extend harness: the field width
    result       \* sign_extend harness: the value returned (-1: not called)

vars == <<memory, registers, input, stdinEof, output, state, exitCode, tio,
          original_tio, steps, last, accesses, stored, argv, w, bit_count,
          result>>

machineVars == <<memory, registers, input, stdinEof, output, state, exitCode,
                 tio, original_tio, steps, last, accesses, stored, argv>>

harnessVars == <<w, bit_count, result>>

(***************************************************************************)
(* Bounds of the model.                                                    *)
(***************************************************************************)
MaxSteps == 4

(***************************************************************************)
(* Program constants.                                                      *)
(***************************************************************************)
UINT16_MAX == 65535

R0 == 0
R7 == 7
PC == 8
COND == 9
COUNT == 10

BR == 0
ADD == 1
LD == 2
ST == 3
JSR == 4
AND == 5
LDR == 6
STR == 7
RTI == 8
NOT == 9
LDI == 10
STI == 11
JMP == 12
RES == 13
LEA == 14
TRAP == 15

FL_POS == 1
FL_ZRO == 2
FL_NEG == 4

TRAP_GETC == 32
TRAP_OUT == 33
TRAP_PUTS == 34
TRAP_IN == 35
TRAP_PUTSP == 36
TRAP_HALT == 37

MR_KBSR == 65024
MR_KBDR == 65026

PC_START == 12288

EOF == -1

SIGABRT_STATUS == 134

\* exit(-2) in handle_interrupt: the status the host sees, (-2) & 0377
INTERRUPT_STATUS == 254

(***************************************************************************)
(* C arithmetic on uint16_t and int.                                       *)
(***************************************************************************)
U16(n) == n % 65536

Shr(n, k) == n \div (2 ^ k)

Shl(n, k) == n * (2 ^ k)

RECURSIVE BitAnd(_, _)
\* a & b on operands promoted to int
BitAnd(a, b) ==
    IF a = 0 \/ b = 0 THEN 0
    ELSE (a % 2) * (b % 2) + 2 * BitAnd(a \div 2, b \div 2)

RECURSIVE BitOr(_, _)
\* a | b on operands promoted to int
BitOr(a, b) ==
    IF a = 0 THEN b
    ELSE IF b = 0 THEN a
    ELSE (IF a % 2 = 1 \/ b % 2 = 1 THEN 1 ELSE 0)
         + 2 * BitOr(a \div 2, b \div 2)

\* ~a converted back to uint16_t
BitNot16(a) == 65535 - a

(***************************************************************************)
(* memory[]: reading and writing one cell of the array.                    *)
(***************************************************************************)
MemAt(m, a) == IF a \in DOMAIN m THEN m[a] ELSE 0

MemSet(m, a, v) ==
    IF v = 0
    THEN [c \in (DOMAIN m) \ {a} |-> m[c]]
    ELSE [c \in (DOMAIN m) \cup {a} |-> IF c = a THEN v ELSE m[c]]

(***************************************************************************)
(* sign_extend and update_flags.                                           *)
(***************************************************************************)
\* sign_extend testing bit n instead of bit n - 1
sign_extend_offbyone(x, n) ==
    IF BitAnd(Shr(x, n), 1) = 1
    THEN U16(BitOr(x, Shl(65535, n)))
    ELSE x

sign_extend(x, n) ==
    IF BitAnd(Shr(x, n - 1), 1) = 1
    THEN U16(BitOr(x, Shl(65535, n)))
    ELSE x

\* update_flags as the earlier program has it (vm.c:82): registers[r] << 0xF
update_flags_shl(s, r) ==
    IF s.regs[r] = 0
    THEN [s EXCEPT !.regs[COND] = FL_ZRO]
    ELSE IF Shl(s.regs[r], 15) # 0
         THEN [s EXCEPT !.regs[COND] = FL_NEG]
         ELSE [s EXCEPT !.regs[COND] = FL_POS]

update_flags(s, r) ==
    IF s.regs[r] = 0
    THEN [s EXCEPT !.regs[COND] = FL_ZRO]
    ELSE IF Shr(s.regs[r], 15) # 0
         THEN [s EXCEPT !.regs[COND] = FL_NEG]
         ELSE [s EXCEPT !.regs[COND] = FL_POS]

(***************************************************************************)
(* Host input: select() on stdin and getchar().                            *)
(***************************************************************************)
\* select() reports stdin readable when a byte waits or at end-of-file
check_key(s) == s.input # <<>> \/ stdinEof

\* getchar() returns at once in exactly the same cases; otherwise it blocks
CanGetchar(s) == s.input # <<>> \/ stdinEof

getchar(s) == IF s.input # <<>> THEN Head(s.input) ELSE EOF

AfterGetchar(s) ==
    IF s.input # <<>> THEN [s EXCEPT !.input = Tail(s.input)] ELSE s

(***************************************************************************)
(* Memory access.  memory[] has UINT16_MAX cells, so address 0xFFFF is one *)
(* past its end: a read there yields whatever lies behind the array (oob), *)
(* a write there leaves the array as it is.                                *)
(***************************************************************************)
Access(kind, index, val) == [kind |-> kind, index |-> index, val |-> val]

_mem_write(s, address, val) ==
    LET noted == [s EXCEPT
                    !.acc = Append(@, Access("write", address, val)),
                    !.stored = [a \in (DOMAIN s.stored) \cup {address} |->
                                  IF a = address THEN val ELSE s.stored[a]]]
    IN  IF address = UINT16_MAX THEN noted
        ELSE [noted EXCEPT !.mem = MemSet(s.mem, address, val)]

mem_read(s, address, oob) ==
    LET polled ==
          IF address = MR_KBSR
          THEN IF check_key(s)
               THEN [AfterGetchar(s) EXCEPT
                       !.mem = MemSet(MemSet(s.mem, MR_KBSR, Shl(1, 15)),
                                      MR_KBDR, U16(getchar(s)))]
               ELSE [s EXCEPT !.mem = MemSet(s.mem, MR_KBSR, 0)]
          ELSE s
        val == IF address = UINT16_MAX THEN oob
               ELSE MemAt(polled.mem, address)
    IN  [val |-> val,
         s |-> [polled EXCEPT !.acc = Append(@, Access("read", address, val))]]

(***************************************************************************)
(* Instruction handlers.                                                   *)
(***************************************************************************)
add(s, instr) ==
    LET r0 == BitAnd(Shr(instr, 9), 7)
        r1 == BitAnd(Shr(instr, 6), 7)
        imm_flag == BitAnd(Shr(instr, 5), 1)
        imm5 == sign_extend(BitAnd(instr, 31), 5)
        r2 == BitAnd(instr, 7)
    IN  IF imm_flag # 0
        THEN update_flags([s EXCEPT !.regs[r0] = U16(s.regs[r1] + imm5)], r0)
        ELSE update_flags(
               [s EXCEPT !.regs[r0] = U16(s.regs[r1] + s.regs[r2])], r0)

and(s, instr) ==
    LET dr == BitAnd(Shr(instr, 9), 7)
        sr1 == BitAnd(Shr(instr, 6), 7)
        imm == BitAnd(Shr(instr, 5), 1)
        imm_value == BitAnd(instr, 31)
        sr2 == BitAnd(instr, 7)
    IN  IF imm # 0
        THEN update_flags(
               [s EXCEPT !.regs[dr] = BitAnd(s.regs[sr1], imm_value)], dr)
        ELSE update_flags(
               [s EXCEPT !.regs[dr] = BitAnd(s.regs[sr1], s.regs[sr2])], dr)

not(s, instr) ==
    LET dr == BitAnd(Shr(instr, 9), 7)
        sr == BitAnd(Shr(instr, 6), 7)
    IN  update_flags([s EXCEPT !.regs[dr] = BitNot16(s.regs[sr])], dr)

\* br as the earlier program has it (vm.c:172-184): PC assigned, COND ignored
br_assign(s, instr) ==
    LET cond_flag == BitAnd(Shr(instr, 9), 7)
        PCoffset9 == BitAnd(instr, 511)
    IN  IF cond_flag # 0
        THEN [s EXCEPT !.regs[PC] = sign_extend(PCoffset9, 9)]
        ELSE s

br(s, instr) ==
    LET cond_flag == BitAnd(Shr(instr, 9), 7)
        PCoffset9 == sign_extend(BitAnd(instr, 511), 9)
    IN  IF BitAnd(cond_flag, s.regs[COND]) # 0
        THEN [s EXCEPT !.regs[PC] = U16(@ + PCoffset9)]
        ELSE s

jmp(s, instr) ==
    LET r1 == BitAnd(Shr(instr, 6), 7)
    IN  [s EXCEPT !.regs[PC] = s.regs[r1]]

\* jsr writing R7 after PC has been redirected
jsr_link_last(s, instr) ==
    LET long_flag == BitAnd(Shr(instr, 11), 1)
        pcoffset == sign_extend(BitAnd(instr, 2047), 11)
        r == BitAnd(Shr(instr, 6), 7)
        jumped == IF long_flag # 0
                  THEN [s EXCEPT !.regs[PC] = U16(@ + pcoffset)]
                  ELSE [s EXCEPT !.regs[PC] = s.regs[r]]
    IN  [jumped EXCEPT !.regs[R7] = jumped.regs[PC]]

jsr(s, instr) ==
    LET long_flag == BitAnd(Shr(instr, 11), 1)
        linked == [s EXCEPT !.regs[R7] = s.regs[PC]]
        pcoffset == sign_extend(BitAnd(instr, 2047), 11)
        r == BitAnd(Shr(instr, 6), 7)
    IN  IF long_flag # 0
        THEN [linked EXCEPT !.regs[PC] = U16(@ + pcoffset)]
        ELSE [linked EXCEPT !.regs[PC] = linked.regs[r]]

\* ld with the offset field cut to its low 8 bits
ld_offset8(s, instr, oob) ==
    LET dr == BitAnd(Shr(instr, 9), 7)
        pcoffset == sign_extend(BitAnd(instr, 255), 9)
        rd == mem_read(s, U16(s.regs[PC] + pcoffset), oob)
    IN  update_flags([rd.s EXCEPT !.regs[dr] = rd.val], dr)

ld(s, instr, oob) ==
    LET dr == BitAnd(Shr(instr, 9), 7)
        pcoffset == sign_extend(BitAnd(instr, 511), 9)
        rd == mem_read(s, U16(s.regs[PC] + pcoffset), oob)
    IN  update_flags([rd.s EXCEPT !.regs[dr] = rd.val], dr)

ldi(s, instr, oob1, oob2) ==
    LET dr == BitAnd(Shr(instr, 9), 7)
        pcoffset == sign_extend(BitAnd(instr, 511), 9)
        inner == mem_read(s, U16(s.regs[PC] + pcoffset), oob1)
        outer == mem_read(inner.s, inner.val, oob2)
    IN  update_flags([outer.s EXCEPT !.regs[dr] = outer.val], dr)

ldr(s, instr, oob) ==
    LET dr == BitAnd(Shr(instr, 9), 7)
        baser == BitAnd(Shr(instr, 6), 7)
        offset == sign_extend(BitAnd(instr, 63), 6)
        rd == mem_read(s, U16(s.regs[baser] + offset), oob)
    IN  update_flags([rd.s EXCEPT !.regs[dr] = rd.val], dr)

\* lea with the offset taken from the instruction's own address
lea_from_instr(s, instr) ==
    LET dr == BitAnd(Shr(instr, 9), 7)
        pcoffset9 == sign_extend(BitAnd(instr, 511), 9)
    IN  update_flags([s EXCEPT !.regs[dr] = U16(s.regs[PC] - 1 + pcoffset9)],
                     dr)

lea(s, instr) ==
    LET dr == BitAnd(Shr(instr, 9), 7)
        pcoffset9 == sign_extend(BitAnd(instr, 511), 9)
    IN  update_flags([s EXCEPT !.regs[dr] = U16(s.regs[PC] + pcoffset9)], dr)

st(s, instr) ==
    LET dr == BitAnd(Shr(instr, 9), 7)
        pc_offset == sign_extend(BitAnd(instr, 511), 9)
    IN  _mem_write(s, U16(s.regs[PC] + pc_offset), s.regs[dr])

sti(s, instr, oob) ==
    LET r0 == BitAnd(Shr(instr, 9), 7)
        pc_offset == sign_extend(BitAnd(instr, 511), 9)
        rd == mem_read(s, U16(s.regs[PC] + pc_offset), oob)
    IN  _mem_write(rd.s, rd.val, rd.s.regs[r0])

\* str followed by update_flags on the register stored
str_flags(s, instr) ==
    LET r0 == BitAnd(Shr(instr, 9), 7)
        r1 == BitAnd(Shr(instr, 6), 7)
        offset == sign_extend(BitAnd(instr, 63), 6)
    IN  update_flags(_mem_write(s, U16(s.regs[r1] + offset), s.regs[r0]), r0)

str(s, instr) ==
    LET r0 == BitAnd(Shr(instr, 9), 7)
        r1 == BitAnd(Shr(instr, 6), 7)
        offset == sign_extend(BitAnd(instr, 63), 6)
    IN  _mem_write(s, U16(s.regs[r1] + offset), s.regs[r0])

(***************************************************************************)
(* Trap routines (the inner switch of main) and the two ways the loop ends.*)
(***************************************************************************)
HALT_TEXT == <<72, 65, 76, 84, 10>>

ABORT_TEXT == <<65, 98, 111, 114, 116, 105, 110, 103, 46, 46, 46, 10>>

IN_PROMPT == <<69, 110, 116, 101, 114, 32, 97, 32, 99, 104, 97, 114, 58, 32>>

\* (char)v as putc writes it: one byte
Byte(v) == v % 256

\* (uint16_t)c for a char c holding byte b, on a build whose char is signed or not
CharToU16(b, charSigned) ==
    IF charSigned /\ b >= 128 THEN U16(b - 256) ELSE b

\* while (*c) { putc((char)*c); ++c; } from memory + a; c is a host pointer and
\* does not wrap: past the array's last cell the loop prints what lies beyond
RECURSIVE PutsFrom(_, _, _)
PutsFrom(m, a, beyond) ==
    IF a >= UINT16_MAX THEN beyond
    ELSE IF MemAt(m, a) = 0 THEN <<>>
    ELSE <<Byte(MemAt(m, a))>> \o PutsFrom(m, a + 1, beyond)

RECURSIVE PutspFrom(_, _, _)
PutspFrom(m, a, beyond) ==
    IF a >= UINT16_MAX THEN beyond
    ELSE IF MemAt(m, a) = 0 THEN <<>>
    ELSE LET char1 == Byte(MemAt(m, a))
             char2 == Byte(Shr(MemAt(m, a), 8))
         IN  <<char1>> \o (IF char2 # 0 THEN <<char2>> ELSE <<>>)
             \o PutspFrom(m, a + 1, beyond)

RECURSIVE ScanEnd(_, _, _)
\* the index of the last cell the loop reads: the first zero word, or a cell
\* behind the array (it reads at least one cell there, index UINT16_MAX)
ScanEnd(m, a, beyond) ==
    IF a >= UINT16_MAX THEN UINT16_MAX + Len(beyond)
    ELSE IF MemAt(m, a) = 0 THEN a
    ELSE ScanEnd(m, a + 1, beyond)

trap_getc(s) ==
    [AfterGetchar(s) EXCEPT !.regs[R0] = U16(getchar(s))]

trap_out(s) ==
    [s EXCEPT !.out = @ \o <<Byte(s.regs[R0])>>]

trap_puts(s, beyond) ==
    [s EXCEPT !.out = @ \o PutsFrom(s.mem, s.regs[R0], beyond),
              !.acc = Append(@, Access("scan", s.regs[R0],
                                       ScanEnd(s.mem, s.regs[R0], beyond)))]

trap_in(s, charSigned) ==
    LET c == Byte(getchar(s))
    IN  [AfterGetchar(s) EXCEPT !.out = @ \o IN_PROMPT \o <<c>>,
                                !.regs[R0] = CharToU16(c, charSigned)]

trap_putsp(s, beyond) ==
    [s EXCEPT !.out = @ \o PutspFrom(s.mem, s.regs[R0], beyond),
              !.acc = Append(@, Access("scan", s.regs[R0],
                                       ScanEnd(s.mem, s.regs[R0], beyond)))]

\* tcsetattr(STDIN_FILENO, TCSANOW, &original_tio)
restore_input_buffering(s) == [s EXCEPT !.tio = original_tio]

\* after the loop: restore_input_buffering(); return 0;
shutdown(s) ==
    [restore_input_buffering(s) EXCEPT !.state = "Halted", !.exit = 0]

\* TRAP_HALT without the puts("HALT")
trap_halt_silent(s) == shutdown(s)

\* puts("HALT"); running = 0; and with it the end of main
trap_halt(s) == shutdown([s EXCEPT !.out = @ \o HALT_TEXT])

\* the abort case without the call of abort()
illegal_ignored(s) == [s EXCEPT !.out = @ \o ABORT_TEXT]

\* case RES: case RTI: default: printf("Aborting...\n"); abort();
illegal(s) ==
    [s EXCEPT !.out = @ \o ABORT_TEXT, !.state = "Aborted",
              !.exit = SIGABRT_STATUS]

(***************************************************************************)
(* Image loading.  A file is a sequence of bytes; fread stores each pair   *)
(* of bytes as a little-endian host word, which swap16 then turns around.  *)
(***************************************************************************)
swap16(x) == U16(BitOr(Shl(x, 8), Shr(x, 8)))

HostWord(file, i) == file[i] + 256 * file[i + 1]

Min(a, b) == IF a < b THEN a ELSE b

read_image_file(m, file) ==
    LET origin == swap16(HostWord(file, 1))
        max_read == UINT16_MAX - origin
        read == Min((Len(file) - 2) \div 2, max_read)
        span == origin .. (origin + read - 1)
        word(a) == swap16(HostWord(file, 3 + 2 * (a - origin)))
        kept == {a \in (DOMAIN m) \ span : TRUE} \cup
                {a \in span : word(a) # 0}
    IN  [a \in kept |-> IF a \in span THEN word(a) ELSE m[a]]

RECURSIVE LoadAll(_, _)
\* for (j = 0; j < argc; ++j) read_image(argv[j]);
LoadAll(m, files) ==
    IF files = <<>> THEN m
    ELSE LoadAll(read_image_file(m, Head(files)), Tail(files))

(***************************************************************************)
(* The inputs of a run: the image files named on the command line, the     *)
(* file argv[0] (the VM's own executable, which the load loop reads        *)
(* first), the bytes on stdin, and what lies behind memory[].              *)
(***************************************************************************)
RECURSIVE BigEndian(_)
BigEndian(words) ==
    IF words = <<>> THEN <<>>
    ELSE <<Shr(Head(words), 8), Head(words) % 256>> \o BigEndian(Tail(words))

\* the first bytes of an ELF executable: 7F 45 4C 46 02 01
SelfImage == <<127, 69, 76, 70, 2, 1>>

SetupWords ==
    { \h0000, \h0E01, \h127F, \h1261, \h5260, \h2201, \hE001, \h4801,
      \hF020, \h2E01 }

TestWords ==
    { \h0E01, \h0801, \h0401, \h0201, \h0FFF, \h01FF,
      \h1241, \h127F, \h1270, \h126F, \h1025,
      \h5241, \h527F, \h5261, \h5260,
      \h927F,
      \h2400, \h25FE,
      \hA400,
      \h6440, \h6441, \h6442, \h6400, \h643F,
      \hE5FF,
      \h3200,
      \hB200,
      \h7240,
      \hC040, \hC1C0,
      \h4800, \h4FFF, \h4FFE, \h4040, \h41C0,
      \hF020, \hF021, \hF022, \hF023, \hF024, \hF025,
      \hF000, \hF026, \hF0FF,
      \hD000, \h8000, \hD025 }

TailWords ==
    { \hC1C0, \hF025, \h0000, \hFE00, \hFFFF, \h0048, \h6548, \h3000 }

\* scenario S1 of the specification
HelloImage == <<\h3000, \hE001, \hF022, \hF025, \h0048, \h0069, \h0000>>

Images ==
    { BigEndian(<<PC_START, a, b, c>>) :
        a \in SetupWords, b \in TestWords, c \in TailWords }
    \cup { BigEndian(HelloImage) }

\* scenario S4 of the specification, as three image files
S4CommandLine ==
    << BigEndian(<<\h3000, \hA6FF>>), BigEndian(<<\h3100, \h4000>>),
       BigEndian(<<\h4000, \hBEEF>>) >>

\* R1 = 0xFFFF; STR R1,R1,#0; LDR R2,R1,#0: a store to 0xFFFF read back
StoreTopImage == <<\h3000, \h127F, \h7240, \h6440>>

\* R1 = 0xFFFE; JMP R1; at 0xFFFE, LEA R0,#5: an address sum above 0xFFFF
TopLeaCommandLine ==
    << BigEndian(<<\h3000, \h127E, \hC040>>), BigEndian(<<\hFFFE, \hE005>>) >>

\* two overlapping images, and an image whose last word belongs at 0xFFFF
MoreCommandLines ==
    { << BigEndian(<<\h3000, \h1261, \h1261>>),
         BigEndian(<<\h3001, \hF025>>) >>,
      << BigEndian(<<\hFFFE, \h0041, \h0042>>) >>,
      S4CommandLine,
      << BigEndian(StoreTopImage) >>,
      TopLeaCommandLine }

CommandLines == { <<img>> : img \in Images } \cup MoreCommandLines

\* the scenario runs, and one run for each test word between a no-op and HALT
ScenarioCommandLines ==
    { << BigEndian(<<PC_START, \h0000, b, \hF025>>) >> : b \in TestWords }
    \cup { << BigEndian(HelloImage) >> } \cup MoreCommandLines

Stdins ==
    { [bytes |-> <<>>, eof |-> FALSE],
      [bytes |-> <<>>, eof |-> TRUE],
      [bytes |-> <<65>>, eof |-> FALSE],
      [bytes |-> <<200, 10>>, eof |-> TRUE] }

\* words a read of memory[0xFFFF] may find behind the array
OobWords == { \h0000, \hF025, \hE400, \hE5FF }

\* bytes a string scan that runs off the array may print
OobTails == { <<>>, <<33>>, <<33, 34>> }

\* what a read of memory[0xFFFF] may return: what lies there, which a store
\* to memory[0xFFFF] may have changed
Behind(s) ==
    OobWords \cup (IF UINT16_MAX \in DOMAIN s.stored
                   THEN {s.stored[UINT16_MAX]} ELSE {})

OobAt(s, a) == IF a = UINT16_MAX THEN Behind(s) ELSE {0}

OobTailAt(s) ==
    IF \A a \in s.regs[R0] .. (UINT16_MAX - 1) : MemAt(s.mem, a) # 0
    THEN OobTails ELSE {<<>>}

(***************************************************************************)
(* main: start-up.                                                         *)
(***************************************************************************)
NoInstr == [addr |-> 0, instr |-> 0, paddr |-> 0, pinstr |-> 0,
            pre |-> [regs |-> [r \in 0 .. (COUNT - 1) |-> 0],
                     mem |-> [c \in {} |-> 0], input |-> <<>>, out |-> <<>>,
                     state |-> "Running", exit |-> -1, tio |-> "raw",
                     acc |-> <<>>, stored |-> [c \in {} |-> 0]]]

\* the process once the load loop has run and PC is set
Loaded(cmds) ==
    \E cmd \in cmds, stdin \in Stdins :
        /\ argv = cmd
        /\ memory = LoadAll([c \in {} |-> 0], <<SelfImage>> \o cmd)
        /\ accesses = <<>>
        /\ stored = [c \in {} |-> 0]
        /\ registers = [r \in 0 .. (COUNT - 1) |->
                          IF r = PC THEN PC_START ELSE 0]
        /\ input = stdin.bytes
        /\ stdinEof = stdin.eof
        /\ output = <<>>
        /\ exitCode = -1
        /\ steps = 0
        /\ last = NoInstr

\* the process as it enters the loop: handler installed, terminal mode saved
\* and changed
StartUp(cmds) ==
    /\ Loaded(cmds)
    /\ state = "Running"
    /\ original_tio = "original"
    /\ tio = "raw"

InitMachine == StartUp(CommandLines)

Init ==
    /\ InitMachine
    /\ w = 0
    /\ bit_count = 5
    /\ result = -1

(***************************************************************************)
(* main: the dispatch loop.  Each action is one turn of the loop: the      *)
(* fetch, mem_read(registers[PC]++), and the handler of the opcode.        *)
(***************************************************************************)
Machine ==
    [regs |-> registers, mem |-> memory, input |-> input, out |-> output,
     state |-> state, exit |-> exitCode, tio |-> tio,
     acc |-> accesses, stored |-> stored]

Running == state = "Running" /\ steps < MaxSteps

Fetched(oob) ==
    LET rd == mem_read([Machine EXCEPT !.acc = <<>>], registers[PC], oob)
    IN  [instr |-> rd.val,
         op |-> Shr(rd.val, 12),
         s |-> [rd.s EXCEPT !.regs[PC] = U16(registers[PC] + 1)]]

\* the globals after the turn: f the fetch, s2 the handler's result
Commit(f, s2) ==
    \E after \in {s2} :
        /\ registers' = after.regs
        /\ memory' = after.mem
        /\ input' = after.input
        /\ output' = after.out
        /\ state' = after.state
        /\ exitCode' = after.exit
        /\ tio' = after.tio
        /\ accesses' = after.acc
        /\ stored' = after.stored
        /\ steps' = steps + 1
        /\ last' = [addr |-> registers[PC], instr |-> f.instr,
                    paddr |-> last.addr, pinstr |-> last.instr,
                    pre |-> Machine]
        /\ UNCHANGED <<stdinEof, original_tio, argv, w, bit_count, result>>

ExecADD ==
    /\ Running
    /\ \E oob \in OobAt(Machine, registers[PC]) :
         \E f \in {Fetched(oob)} :
             f.op = ADD /\ Commit(f, add(f.s, f.instr))

ExecAND ==
    /\ Running
    /\ \E oob \in OobAt(Machine, registers[PC]) :
         \E f \in {Fetched(oob)} :
             f.op = AND /\ Commit(f, and(f.s, f.instr))

ExecNOT ==
    /\ Running
    /\ \E oob \in OobAt(Machine, registers[PC]) :
         \E f \in {Fetched(oob)} :
             f.op = NOT /\ Commit(f, not(f.s, f.instr))

ExecBR ==
    /\ Running
    /\ \E oob \in OobAt(Machine, registers[PC]) :
         \E f \in {Fetched(oob)} :
             f.op = BR /\ Commit(f, br(f.s, f.instr))

ExecJMP ==
    /\ Running
    /\ \E oob \in OobAt(Machine, registers[PC]) :
         \E f \in {Fetched(oob)} :
             f.op = JMP /\ Commit(f, jmp(f.s, f.instr))

ExecJSR ==
    /\ Running
    /\ \E oob \in OobAt(Machine, registers[PC]) :
         \E f \in {Fetched(oob)} :
             f.op = JSR /\ Commit(f, jsr(f.s, f.instr))

ExecLD ==
    /\ Running
    /\ \E oob \in OobAt(Machine, registers[PC]) :
         \E f \in {Fetched(oob)} :
             /\ f.op = LD
             /\ \E o1 \in Behind(Machine) : Commit(f, ld(f.s, f.instr, o1))

ExecLDI ==
    /\ Running
    /\ \E oob \in OobAt(Machine, registers[PC]) :
         \E f \in {Fetched(oob)} :
             /\ f.op = LDI
             /\ \E o1 \in Behind(Machine), o2 \in Behind(Machine) :
                  Commit(f, ldi(f.s, f.instr, o1, o2))

ExecLDR ==
    /\ Running
    /\ \E oob \in OobAt(Machine, registers[PC]) :
         \E f \in {Fetched(oob)} :
             /\ f.op = LDR
             /\ \E o1 \in Behind(Machine) : Commit(f, ldr(f.s, f.instr, o1))

ExecLEA ==
    /\ Running
    /\ \E oob \in OobAt(Machine, registers[PC]) :
         \E f \in {Fetched(oob)} :
             f.op = LEA /\ Commit(f, lea(f.s, f.instr))

ExecST ==
    /\ Running
    /\ \E oob \in OobAt(Machine, registers[PC]) :
         \E f \in {Fetched(oob)} :
             f.op = ST /\ Commit(f, st(f.s, f.instr))

ExecSTI ==
    /\ Running
    /\ \E oob \in OobAt(Machine, registers[PC]) :
         \E f \in {Fetched(oob)} :
             /\ f.op = STI
             /\ \E o1 \in Behind(Machine) : Commit(f, sti(f.s, f.instr, o1))

ExecSTR ==
    /\ Running
    /\ \E oob \in OobAt(Machine, registers[PC]) :
         \E f \in {Fetched(oob)} :
             f.op = STR /\ Commit(f, str(f.s, f.instr))

TrapVector(instr) == BitAnd(instr, 255)

ExecTrapGETC ==
    /\ Running
    /\ \E oob \in OobAt(Machine, registers[PC]) :
         \E f \in {Fetched(oob)} :
             /\ f.op = TRAP /\ TrapVector(f.instr) = TRAP_GETC
             /\ CanGetchar(f.s)
             /\ Commit(f, trap_getc(f.s))

ExecTrapOUT ==
    /\ Running
    /\ \E oob \in OobAt(Machine, registers[PC]) :
         \E f \in {Fetched(oob)} :
             /\ f.op = TRAP /\ TrapVector(f.instr) = TRAP_OUT
             /\ Commit(f, trap_out(f.s))

ExecTrapPUTS ==
    /\ Running
    /\ \E oob \in OobAt(Machine, registers[PC]) :
         \E f \in {Fetched(oob)} :
             /\ f.op = TRAP /\ TrapVector(f.instr) = TRAP_PUTS
             /\ \E beyond \in OobTailAt(f.s) :
                  Commit(f, trap_puts(f.s, beyond))

ExecTrapIN ==
    /\ Running
    /\ \E oob \in OobAt(Machine, registers[PC]) :
         \E f \in {Fetched(oob)} :
             /\ f.op = TRAP /\ TrapVector(f.instr) = TRAP_IN
             /\ CanGetchar(f.s)
             /\ \E charSigned \in BOOLEAN :
                  Commit(f, trap_in(f.s, charSigned))

ExecTrapPUTSP ==
    /\ Running
    /\ \E oob \in OobAt(Machine, registers[PC]) :
         \E f \in {Fetched(oob)} :
             /\ f.op = TRAP /\ TrapVector(f.instr) = TRAP_PUTSP
             /\ \E beyond \in OobTailAt(f.s) :
                  Commit(f, trap_putsp(f.s, beyond))

ExecTrapHALT ==
    /\ Running
    /\ \E oob \in OobAt(Machine, registers[PC]) :
         \E f \in {Fetched(oob)} :
             /\ f.op = TRAP /\ TrapVector(f.instr) = TRAP_HALT
             /\ Commit(f, trap_halt(f.s))

\* the inner switch has no default: any other vector falls through to break
ExecTrapOther ==
    /\ Running
    /\ \E oob \in OobAt(Machine, registers[PC]) :
         \E f \in {Fetched(oob)} :
             /\ f.op = TRAP
             /\ TrapVector(f.instr) \notin TRAP_GETC .. TRAP_HALT
             /\ Commit(f, f.s)

ExecIllegal ==
    /\ Running
    /\ \E oob \in OobAt(Machine, registers[PC]) :
         \E f \in {Fetched(oob)} :
             f.op \in {RES, RTI} /\ Commit(f, illegal(f.s))

Next ==
    \/ ExecADD \/ ExecAND \/ ExecNOT \/ ExecBR \/ ExecJMP \/ ExecJSR
    \/ ExecLD \/ ExecLDI \/ ExecLDR \/ ExecLEA
    \/ ExecST \/ ExecSTI \/ ExecSTR
    \/ ExecTrapGETC \/ ExecTrapOUT \/ ExecTrapPUTS \/ ExecTrapIN
    \/ ExecTrapPUTSP \/ ExecTrapHALT \/ ExecTrapOther
    \/ ExecIllegal

Spec == Init /\ [][Next]_vars

\* the loop of main keeps running: while(running) fetches the next
\* instruction as long as the machine can take one
InitScenarios ==
    /\ StartUp(ScenarioCommandLines)
    /\ w = 0
    /\ bit_count = 5
    /\ result = -1

SpecFair == InitScenarios /\ [][Next]_vars /\ WF_vars(Next)

(***************************************************************************)
(* The host's SIGINT.  Spec and SpecFair are the runs in which no signal   *)
(* is delivered; SpecSignals starts where signal(SIGINT, handle_interrupt) *)
(* has returned, takes disable_input_buffering in its two calls, and lets  *)
(* the host deliver SIGINT at any point up to the end of the run: during   *)
(* start-up, between two instructions, and while an instruction is blocked *)
(* in getchar.                                                             *)
(***************************************************************************)
InitSignals ==
    /\ Loaded(ScenarioCommandLines)
    /\ state = "Installed"
    /\ original_tio = "zero"
    /\ tio = "original"
    /\ w = 0
    /\ bit_count = 5
    /\ result = -1

\* tcgetattr(STDIN_FILENO, &original_tio);
SaveTerminalMode ==
    /\ state = "Installed"
    /\ original_tio' = tio
    /\ state' = "Saved"
    /\ UNCHANGED <<memory, registers, input, stdinEof, output, exitCode, tio,
                   steps, last, accesses, stored, argv, w, bit_count, result>>

\* new_tio.c_lflag &= ~ICANON & ~ECHO; tcsetattr(STDIN_FILENO, TCSANOW, &new_tio);
SetRawMode ==
    /\ state = "Saved"
    /\ tio' = "raw"
    /\ state' = "Running"
    /\ UNCHANGED <<memory, registers, input, stdinEof, output, exitCode,
                   original_tio, steps, last, accesses, stored, argv, w,
                   bit_count, result>>

\* restore_input_buffering(); printf("\n"); exit(-2);
handle_interrupt ==
    /\ state \in {"Installed", "Saved", "Running"}
    /\ tio' = restore_input_buffering(Machine).tio
    /\ output' = output \o <<10>>
    /\ state' = "Interrupted"
    /\ exitCode' = INTERRUPT_STATUS
    /\ UNCHANGED <<memory, registers, input, stdinEof, original_tio, steps,
                   last, accesses, stored, argv, w, bit_count, result>>

NextSignals == Next \/ SaveTerminalMode \/ SetRawMode \/ handle_interrupt

SpecSignals == InitSignals /\ [][NextSignals]_vars

(***************************************************************************)
(* A harness for sign_extend: every instruction word and every field width *)
(* a handler uses, masked as the handlers mask it.                         *)
(***************************************************************************)
FieldWidths == {5, 6, 9, 11}

InitSE ==
    /\ w \in 0 .. UINT16_MAX
    /\ bit_count \in FieldWidths
    /\ result = -1
    /\ memory = [c \in {} |-> 0]
    /\ registers = [r \in 0 .. (COUNT - 1) |-> IF r = PC THEN PC_START ELSE 0]
    /\ input = <<>>
    /\ stdinEof = FALSE
    /\ output = <<>>
    /\ state = "Running"
    /\ exitCode = -1
    /\ tio = "raw"
    /\ original_tio = "original"
    /\ steps = 0
    /\ last = NoInstr
    /\ accesses = <<>>
    /\ stored = [c \in {} |-> 0]
    /\ argv = <<>>

CallSignExtend ==
    /\ result = -1
    /\ result' = sign_extend(BitAnd(w, 2 ^ bit_count - 1), bit_count)
    /\ UNCHANGED <<w, bit_count>>
    /\ UNCHANGED machineVars

NextSE == CallSignExtend

SpecSE == InitSE /\ [][NextSE]_vars

(***************************************************************************)
(* Vocabulary of the properties: the fields of the instruction executed    *)
(* last, read arithmetically, and two's-complement values.                 *)
(***************************************************************************)
Field(x, lo, width) == (x \div (2 ^ lo)) % (2 ^ width)

Signed(v, n) == IF v >= 2 ^ (n - 1) THEN v - 2 ^ n ELSE v

Executed == steps > 0

LastOp == Field(last.instr, 12, 4)

LastDR == Field(last.instr, 9, 3)

LastSR1 == Field(last.instr, 6, 3)

LastVector == Field(last.instr, 0, 8)

PostFetchPC == (last.addr + 1) % 65536

Wrap(n) == n % 65536

(***************************************************************************)
(* C1.  After ADD, AND, NOT, LD, LDI, LDR or LEA, COND is exactly one of   *)
(* POS (1), ZRO (2), NEG (4): ZRO iff the destination register now holds   *)
(* 0, NEG iff bit 15 of it is set, POS otherwise.                          *)
(***************************************************************************)
C1_FlagsMatchDestination ==
    (Executed /\ LastOp \in {ADD, AND, NOT, LD, LDI, LDR, LEA}) =>
        LET v == registers[LastDR]
        IN  /\ registers[COND] \in {1, 2, 4}
            /\ (registers[COND] = 2) <=> (v = 0)
            /\ (registers[COND] = 4) <=> (v >= 32768)
            /\ (registers[COND] = 1) <=> (v > 0 /\ v < 32768)

C1_Witness ==
    /\ Executed /\ LastOp = NOT
    /\ registers[LastDR] > 0 /\ registers[LastDR] < 32768
    /\ registers[COND] = 1

(***************************************************************************)
(* C2.  For every 16-bit word w and every n in {5, 6, 9, 11},              *)
(* sign_extend(w & (2^n - 1), n) is the 16-bit word whose signed value is  *)
(* the signed value of the n-bit field: bits n..15 all ones when bit n-1   *)
(* of the field is set, the field unchanged otherwise.                     *)
(***************************************************************************)
C2_SignExtendValue ==
    (result # -1) =>
        LET f == w % (2 ^ bit_count)
        IN  /\ result \in 0 .. 65535
            /\ Signed(result, 16) = Signed(f, bit_count)
            /\ (Field(f, bit_count - 1, 1) = 1) =>
                  /\ Field(result, bit_count, 16 - bit_count)
                       = 2 ^ (16 - bit_count) - 1
                  /\ result % (2 ^ bit_count) = f
            /\ (Field(f, bit_count - 1, 1) = 0) => result = f

C2_Witness ==
    /\ w = 4735 /\ bit_count = 5 /\ result = 65535

(***************************************************************************)
(* C3.  BR fetched at address A leaves PC = A + 1 + sext(imm9) (mod 2^16)  *)
(* when nzp AND COND is non-zero and PC = A + 1 (mod 2^16) otherwise; with *)
(* nzp = 000 it never moves PC beyond the fetch increment.                 *)
(***************************************************************************)
C3_BranchTarget ==
    (Executed /\ LastOp = BR) =>
        LET nzp == Field(last.instr, 9, 3)
            cond == last.pre.regs[COND]
            taken == \E k \in 0 .. 2 :
                        Field(nzp, k, 1) = 1 /\ Field(cond, k, 1) = 1
            imm9 == Field(last.instr, 0, 9)
        IN  /\ taken => registers[PC] = Wrap(PostFetchPC + Signed(imm9, 9))
            /\ ~taken => registers[PC] = PostFetchPC
            /\ nzp = 0 => registers[PC] = PostFetchPC

C3_Witness ==
    /\ Executed /\ LastOp = BR
    /\ Field(last.instr, 9, 3) = 7 /\ Field(last.instr, 0, 9) = 511
    /\ last.pre.regs[COND] = 4
    /\ registers[PC] = last.addr

(***************************************************************************)
(* C4.  BR with nzp = 111 is an unconditional branch: whenever it runs,    *)
(* also as the first instruction after start-up, it sets PC to the         *)
(* post-fetch PC + sext(imm9).                                             *)
(***************************************************************************)
C4_UnconditionalBranch ==
    (Executed /\ LastOp = BR /\ Field(last.instr, 9, 3) = 7) =>
        registers[PC] = Wrap(PostFetchPC + Signed(Field(last.instr, 0, 9), 9))

(***************************************************************************)
(* C5.  AND has ADD's operand layout: with bit 5 = 1 it computes           *)
(* DR = SR1 AND sext(imm5), imm5 sign-extended to 16 bits; with bit 5 = 0  *)
(* it computes DR = SR1 AND SR2.                                           *)
(***************************************************************************)
C5_AndSignExtendsImmediate ==
    (Executed /\ LastOp = AND) =>
        LET sr1 == last.pre.regs[LastSR1]
            imm5 == Field(last.instr, 0, 5)
            sr2 == last.pre.regs[Field(last.instr, 0, 3)]
        IN  registers[LastDR] =
                IF Field(last.instr, 5, 1) = 1
                THEN BitAnd(sr1, Wrap(Signed(imm5, 5)))
                ELSE BitAnd(sr1, sr2)

(***************************************************************************)
(* C6.  JSR/JSRR fetched at A leaves R7 = A + 1 (mod 2^16), written before *)
(* PC is redirected: PC becomes A + 1 + sext(imm11) when bit 11 = 1, and   *)
(* otherwise the register of bits 8..6 as it is after the write of R7 (so  *)
(* JSRR R7 goes to A + 1).  A JMP R7 executed right after a JSR fetched at *)
(* A, at the JSR's target, brings PC back to A + 1.                        *)
(***************************************************************************)
C6_JsrLinksThenJumps ==
    /\ (Executed /\ LastOp = JSR) =>
          /\ registers[R7] = PostFetchPC
          /\ registers[PC] =
                IF Field(last.instr, 11, 1) = 1
                THEN Wrap(PostFetchPC + Signed(Field(last.instr, 0, 11), 11))
                ELSE IF LastSR1 = 7 THEN PostFetchPC
                ELSE last.pre.regs[LastSR1]
    /\ (steps > 1 /\ LastOp = JMP /\ LastSR1 = 7
          /\ Field(last.pinstr, 12, 4) = JSR) =>
          registers[PC] = Wrap(last.paddr + 1)

C6_Witness ==
    /\ steps > 1 /\ LastOp = JMP /\ LastSR1 = 7
    /\ Field(last.pinstr, 12, 4) = JSR
    /\ last.addr = Wrap(last.paddr + 2)
    /\ registers[PC] = Wrap(last.paddr + 1)
    /\ registers[R7] = Wrap(last.paddr + 1)

(***************************************************************************)
(* C7.  A TRAP fetched at A writes the post-fetch PC, A + 1 (mod 2^16),    *)
(* into R7 before the vector is dispatched, whatever the vector.           *)
(***************************************************************************)
C7_TrapSavesReturnAddress ==
    (Executed /\ LastOp = TRAP) => registers[R7] = PostFetchPC

(***************************************************************************)
(* C8.  A TRAP whose vector is not one of 0x20..0x25 takes the machine     *)
(* from Running to Aborted; execution never goes on to the next            *)
(* instruction.                                                            *)
(***************************************************************************)
C8_UndefinedTrapAborts ==
    (Executed /\ LastOp = TRAP /\ LastVector \notin 32 .. 37) =>
        state = "Aborted"

(***************************************************************************)
(* C9.  Fetching RES or RTI takes the machine from Running to Aborted with *)
(* a non-zero exit; it changes no register but PC (the fetch increment)    *)
(* and no memory cell, and no further instruction is fetched.              *)
(* C9_Original states this as claimed.  C9_AbortLeavesStateAlone is the    *)
(* amended claim: when the instruction was fetched from KBSR itself, the   *)
(* fetch's keyboard poll has written mem[KBSR] = 0x8000 and mem[KBDR];     *)
(* every other cell, and every cell for any other fetch address, is        *)
(* unchanged.                                                              *)
(***************************************************************************)
C9_Original ==
    (Executed /\ LastOp \in {RES, RTI}) =>
        /\ state = "Aborted"
        /\ exitCode > 0
        /\ registers = [last.pre.regs EXCEPT ![PC] = PostFetchPC]
        /\ memory = last.pre.mem
        /\ ~ENABLED Next

C9_AbortLeavesStateAlone ==
    (Executed /\ LastOp \in {RES, RTI}) =>
        /\ state = "Aborted"
        /\ exitCode > 0
        /\ registers = [last.pre.regs EXCEPT ![PC] = PostFetchPC]
        /\ last.addr # 65024 => memory = last.pre.mem
        /\ last.addr = 65024 =>
              /\ \A a \in (DOMAIN memory) \cup (DOMAIN last.pre.mem) :
                    a \notin {65024, 65026} =>
                        MemAt(memory, a) = MemAt(last.pre.mem, a)
              /\ MemAt(memory, 65024) = 32768
              /\ last.instr = 32768
        /\ ~ENABLED Next

C9_Witness ==
    /\ Executed /\ LastOp = RES /\ last.addr = 12289
    /\ state = "Aborted" /\ steps < MaxSteps

(***************************************************************************)
(* C10.  The machine is Halted exactly when the instruction executed last  *)
(* has opcode 1111 and low byte 0x25: that instruction appends "HALT\n" to *)
(* the output, ends the loop with exit code 0, and nothing is fetched      *)
(* after it.  An instruction with low byte 0x20..0x25 and another opcode   *)
(* performs no trap action (it writes no trap output) and does not halt.   *)
(***************************************************************************)
C10_HaltOnlyByTrap25 ==
    /\ (state = "Halted") =>
          /\ Executed /\ LastOp = 15 /\ LastVector = 37
          /\ output = last.pre.out \o <<72, 65, 76, 84, 10>>
          /\ exitCode = 0
          /\ ~ENABLED Next
    /\ (Executed /\ LastOp = 15 /\ LastVector = 37) => state = "Halted"
    /\ (Executed /\ LastOp # 15 /\ LastVector \in 32 .. 37) =>
          /\ state # "Halted"
          /\ exitCode # 0
          /\ LastOp \notin {RES, RTI} => output = last.pre.out
          /\ LastOp \in {RES, RTI} => output = last.pre.out \o ABORT_TEXT

C10_Witness ==
    /\ state = "Halted" /\ steps > 1 /\ steps < MaxSteps
    /\ LastOp = 15 /\ LastVector = 37
    /\ Len(output) >= 5

(***************************************************************************)
(* C11.  A mem_read of an address other than KBSR and KBDR returns the     *)
(* value of the last store (ST, STI, STR) to that address, whatever was    *)
(* read in between, for every 16-bit address, 0xFFFF included.  Every      *)
(* handler reads before it stores, so the stores that precede a read are   *)
(* those of the earlier instructions.                                      *)
(***************************************************************************)
C11_ReadReturnsLastStore ==
    \A i \in 1 .. Len(accesses) :
        LET a == accesses[i]
        IN  (/\ a.kind = "read"
             /\ a.index \notin {MR_KBSR, MR_KBDR}
             /\ a.index \in DOMAIN last.pre.stored) =>
                a.val = last.pre.stored[a.index]

(***************************************************************************)
(* C12.  TRAP PUTS appends to the output the low bytes of the words        *)
(* mem[R0], mem[R0+1], ..., addresses taken modulo 2^16, up to and         *)
(* excluding the first zero word, and changes no register (the fetch has   *)
(* advanced PC) and no memory cell.  The word at address 0xFFFF is left    *)
(* open: the property asks for the stated output under some value of it.   *)
(***************************************************************************)
RECURSIVE WrappedString(_, _, _, _)
WrappedString(m, a, top, visited) ==
    LET word == IF a = UINT16_MAX THEN top ELSE MemAt(m, a)
    IN  IF word = 0 \/ visited > UINT16_MAX THEN <<>>
        ELSE <<word % 256>>
             \o WrappedString(m, (a + 1) % 65536, top, visited + 1)

C12_PutsWritesWrappedString ==
    (Executed /\ LastOp = TRAP /\ LastVector = TRAP_PUTS) =>
        /\ \E top \in 0 .. UINT16_MAX :
             output = last.pre.out
                      \o WrappedString(memory, last.pre.regs[R0], top, 0)
        /\ registers = [last.pre.regs EXCEPT ![PC] = PostFetchPC]
        /\ memory = last.pre.mem

(***************************************************************************)
(* C13.  TRAP PUTSP stops at the first zero word at or after mem[R0]; for  *)
(* each non-zero word before it, it writes the low byte and then the high  *)
(* byte, leaving out a byte that is zero: a word 0xhh00 gives the high     *)
(* byte only, a word 0x00ll the low byte only.  The scan is followed up to *)
(* the last cell of the array.                                             *)
(***************************************************************************)
RECURSIVE PackedString(_, _)
PackedString(m, a) ==
    IF a >= UINT16_MAX \/ MemAt(m, a) = 0 THEN <<>>
    ELSE LET lo == MemAt(m, a) % 256
             hi == MemAt(m, a) \div 256
         IN  (IF lo # 0 THEN <<lo>> ELSE <<>>)
             \o (IF hi # 0 THEN <<hi>> ELSE <<>>)
             \o PackedString(m, a + 1)

\* the scan ended at a zero word inside the array
ScanInside == accesses[Len(accesses)].val < UINT16_MAX

C13_PutspWritesNonZeroBytes ==
    (Executed /\ LastOp = TRAP /\ LastVector = TRAP_PUTSP /\ ScanInside) =>
        output = last.pre.out \o PackedString(memory, last.pre.regs[R0])

(***************************************************************************)
(* C14.  When TRAP GETC or TRAP IN runs with an input byte b waiting, it   *)
(* consumes exactly that byte and leaves R0 = b, zero-extended to 16 bits, *)
(* for every b in 0..255; COND is unchanged.                               *)
(***************************************************************************)
C14_InputByteZeroExtended ==
    (/\ Executed /\ LastOp = TRAP /\ LastVector \in {TRAP_GETC, TRAP_IN}
     /\ last.pre.input # <<>>) =>
        /\ registers[R0] = Head(last.pre.input)
        /\ input = Tail(last.pre.input)
        /\ registers[COND] = last.pre.regs[COND]

(***************************************************************************)
(* C15.  The terminal is put into raw mode before the loop starts.  Every  *)
(* end of the run other than a host interrupt, that is the HALT trap and   *)
(* the abort on RES or RTI, leaves the terminal in its original mode.      *)
(***************************************************************************)
C15_TerminalRestoredAtEnd ==
    state \in {"Halted", "Aborted"} => tio = "original"

(***************************************************************************)
(* C16.  Scenario S1: the run of the image with origin 0x3000 and words    *)
(* LEA R0,#1 ; TRAP 0x22 ; TRAP 0x25 ; 'H' ; 'i' ; 0 eventually is Halted  *)
(* with exit code 0, and its complete output is then, and stays, the bytes *)
(* "%HiHALT\n": LEA R0,#1 at 0x3000 gives R0 = 0x3002, the address of the  *)
(* TRAP 0x25 word 0xF025, whose low byte is '%', and the data holds no     *)
(* newline.                                                                *)
(***************************************************************************)
S1Run == argv = <<BigEndian(HelloImage)>>

S1Output == <<37, 72, 105, 72, 65, 76, 84, 10>>

C16_HelloRunHalts ==
    S1Run ~> [](state = "Halted" /\ exitCode = 0 /\ output = S1Output)

C16_Witness ==
    /\ S1Run /\ state = "Halted" /\ exitCode = 0 /\ output = S1Output
    /\ last.pinstr = \hF022 /\ last.pre.regs[R0] = \h3002

\* C16 as stated: the complete output is "Hi\nHALT\n"
C16_Original ==
    S1Run ~> (/\ state = "Halted" /\ exitCode = 0
              /\ output = <<72, 105, 10, 72, 65, 76, 84, 10>>)

(***************************************************************************)
(* C17.  When execution begins, memory holds the images named by the user: *)
(* mem[O + i] = W_i for every word W_i of every image (origin O), a later  *)
(* image overwriting an earlier one where they overlap, a word that lands  *)
(* at 0xFFFF included, and every cell covered by none of them is zero.     *)
(***************************************************************************)
ImageOrigin(file) == 256 * file[1] + file[2]

ImageLength(file) == (Len(file) - 2) \div 2

ImageWord(file, i) == 256 * file[3 + 2 * i] + file[4 + 2 * i]

ImageSpan(file) ==
    ImageOrigin(file) .. (ImageOrigin(file) + ImageLength(file) - 1)

RECURSIVE ImagesAt(_, _)
\* the word the images of files put at address a, 0 if none covers it
ImagesAt(files, a) ==
    IF files = <<>> THEN 0
    ELSE LET file == files[Len(files)]
         IN  IF a \in ImageSpan(file)
             THEN ImageWord(file, a - ImageOrigin(file))
             ELSE ImagesAt(SubSeq(files, 1, Len(files) - 1), a)

C17_ImagesLoadedRestZero ==
    steps = 0 =>
        \A a \in (DOMAIN memory)
                 \cup UNION { ImageSpan(argv[k]) : k \in 1 .. Len(argv) } :
            MemAt(memory, a) = ImagesAt(argv, a)

(***************************************************************************)
(* C18.  For LD, LDI, ST, STI and LEA fetched from address A the effective *)
(* address is (A + 1 + sext(imm9)) mod 2^16, all nine offset bits used and *)
(* the offset applied to the incremented PC: LEA puts it in DR, LD reads   *)
(* it, ST writes SR to it, LDI and STI read the pointer there and then     *)
(* read or write through the pointer.  In scenario S4, LDI R3 at 0x3000    *)
(* with offset 0x0FF, mem[0x3100] = 0x4000 and mem[0x4000] = 0xBEEF leaves *)
(* R3 = 0xBEEF and COND = NEG.                                             *)
(***************************************************************************)
EffectiveAddress == Wrap(PostFetchPC + Signed(Field(last.instr, 0, 9), 9))

\* the i-th use of memory[] by the last instruction is of this kind and cell
Used(i, kind, index) ==
    /\ Len(accesses) >= i
    /\ accesses[i].kind = kind
    /\ accesses[i].index = index

S4Run == argv = S4CommandLine

C18_PcRelativeAddress ==
    /\ (Executed /\ LastOp = LEA) => registers[LastDR] = EffectiveAddress
    /\ (Executed /\ LastOp = LD) =>
          /\ Len(accesses) = 2 /\ Used(2, "read", EffectiveAddress)
          /\ registers[LastDR] = accesses[2].val
    /\ (Executed /\ LastOp = LDI) =>
          /\ Len(accesses) = 3 /\ Used(2, "read", EffectiveAddress)
          /\ Used(3, "read", accesses[2].val)
          /\ registers[LastDR] = accesses[3].val
    /\ (Executed /\ LastOp = ST) =>
          /\ Len(accesses) = 2 /\ Used(2, "write", EffectiveAddress)
          /\ accesses[2].val = last.pre.regs[LastDR]
    /\ (Executed /\ LastOp = STI) =>
          /\ Len(accesses) = 3 /\ Used(2, "read", EffectiveAddress)
          /\ Used(3, "write", accesses[2].val)
          /\ accesses[3].val = last.pre.regs[LastDR]
    /\ (S4Run /\ steps = 1) =>
          /\ last.addr = \h3000 /\ last.instr = \hA6FF
          /\ registers[3] = \hBEEF /\ registers[COND] = FL_NEG

C18_Witness ==
    /\ S4Run /\ steps = 1 /\ LastOp = LDI
    /\ EffectiveAddress = \h3100
    /\ registers[3] = \hBEEF /\ registers[COND] = FL_NEG

(***************************************************************************)
(* C19.  A mem_read of KBSR, the instruction fetch included, leaves        *)
(* mem[KBSR] = 0x8000 and mem[KBDR] = the next input byte, consuming that  *)
(* one byte, when a key is available; otherwise it leaves mem[KBSR] = 0,   *)
(* consumes no input and leaves mem[KBDR] as it was.  A mem_read of any    *)
(* other address, KBDR included, changes no memory cell and consumes no    *)
(* input.  Stated on the instructions that store nothing, whose memory     *)
(* effects are those of their reads; a trap's own getchar is set aside.    *)
(***************************************************************************)
ReadsOf(address) ==
    { i \in 1 .. Len(accesses) :
        accesses[i].kind = "read" /\ accesses[i].index = address }

StoresNothing == \A i \in 1 .. Len(accesses) : accesses[i].kind # "write"

SameExcept(cells) ==
    \A a \in ((DOMAIN memory) \cup (DOMAIN last.pre.mem)) \ cells :
        MemAt(memory, a) = MemAt(last.pre.mem, a)

C19_KeyboardPoll ==
    (Executed /\ StoresNothing) =>
        /\ (Cardinality(ReadsOf(MR_KBSR)) = 1 /\ last.pre.input # <<>>) =>
              /\ MemAt(memory, MR_KBSR) = \h8000
              /\ MemAt(memory, MR_KBDR) = Head(last.pre.input)
              /\ input = Tail(last.pre.input)
              /\ SameExcept({MR_KBSR, MR_KBDR})
        /\ (Cardinality(ReadsOf(MR_KBSR)) = 1 /\ last.pre.input = <<>>) =>
              /\ MemAt(memory, MR_KBSR) = 0
              /\ input = last.pre.input
              /\ SameExcept({MR_KBSR})
        /\ (ReadsOf(MR_KBSR) = {}) =>
              /\ memory = last.pre.mem
              /\ LastOp # TRAP => input = last.pre.input

(***************************************************************************)
(* C20.  Every use of memory[] refers to a cell of the array: the          *)
(* instruction fetch at any PC, 0xFFFF included, every load and store at a *)
(* computed 16-bit address, and every cell the PUTS and PUTSP scans visit. *)
(* The array has UINT16_MAX cells, indexes 0 .. UINT16_MAX - 1.            *)
(***************************************************************************)
InsideArray(index) == index \in 0 .. (UINT16_MAX - 1)

C20_AccessesInsideArray ==
    \A i \in 1 .. Len(accesses) :
        /\ InsideArray(accesses[i].index)
        /\ accesses[i].kind = "scan" => InsideArray(accesses[i].val)

(***************************************************************************)
(* C21.  A SIGINT delivered at any point after the handler is installed,   *)
(* the start-up between signal() and the calls of disable_input_buffering  *)
(* included, ends the run Interrupted with a non-zero exit status and with *)
(* the terminal in the mode it had before the VM started, never in the     *)
(* mode of a termios that was not saved.                                   *)
(***************************************************************************)
C21_InterruptRestoresTerminal ==
    state = "Interrupted" =>
        /\ exitCode \notin {-1, 0}
        /\ tio = "original"

(***************************************************************************)
(* C22.  Only ADD, AND, NOT, LD, LDI, LDR and LEA change COND: BR, ST,     *)
(* STI, STR, JMP, JSR, every TRAP, and the aborting RES and RTI leave it   *)
(* as it was.  So COND is always 0, 1, 2 or 4, and it is 0 only while no   *)
(* flag-updating instruction has run: it is 0 when the loop starts, a      *)
(* flag-updating instruction leaves it non-zero, and it is 0 after an      *)
(* instruction only if it was 0 before and the instruction is not one of   *)
(* the seven.                                                              *)
(***************************************************************************)
FlagOps == {ADD, AND, NOT, LD, LDI, LDR, LEA}

C22_CondFrame ==
    /\ registers[COND] \in {0, FL_POS, FL_ZRO, FL_NEG}
    /\ ~Executed => registers[COND] = 0
    /\ (Executed /\ LastOp \in FlagOps) => registers[COND] # 0
    /\ (Executed /\ LastOp \notin FlagOps) =>
          registers[COND] = last.pre.regs[COND]

C22_Witness ==
    /\ Executed /\ LastOp = TRAP /\ LastVector = TRAP_GETC
    /\ last.pre.regs[COND] = FL_NEG /\ last.pre.regs[R0] = 0
    /\ registers[R0] = 65
    /\ registers[COND] = FL_NEG

=============================================================================
